---- MODULE Spec2Model ----
(***************************************************************************)
(* Model of the SEC financial analytics pipeline:                          *)
(*   - SECDataCollector.extract_financial_metrics (src/src/data_collector) *)
(*   - DatabaseManager.insert_company / insert_financial_statement over    *)
(*     the SQLite schema of init_database (src/src/database_manager.py)    *)
(*   - DatabaseManager.export_for_powerbi, the query and its ratios        *)
(*   - the save loops and the export step of main() (src/main.py)          *)
(*                                                                         *)
(* Python's None is the empty tuple, a present value v is <<v>>, so that   *)
(* every optional field has one comparable shape.  A dict is a function    *)
(* and a missing key is a key outside its DOMAIN.                          *)
(***************************************************************************)
EXTENDS Integers, Sequences, FiniteSets, TLC

None == <<>>
Some(v) == <<v>>

\* dict.get(key, default)
Get(d, k, default) == IF k \in DOMAIN d THEN d[k] ELSE default

\* Python truthiness of an optional number / an optional string
TruthyNum(x) == x # None /\ x # Some(0)
TruthyStr(x) == x # None /\ x # Some("")

Range(s) == { s[i] : i \in DOMAIN s }

(***************************************************************************)
(* extract_financial_metrics: the alias table and the two scans            *)
(***************************************************************************)

\* metric_mappings, in dict (insertion) order
MetricNames ==
  << "revenue", "net_income", "total_assets", "stockholders_equity",
     "operating_income", "eps_basic", "eps_diluted", "current_assets",
     "current_liabilities", "total_liabilities", "operating_cash_flow" >>

metric_mappings ==
  [ revenue |-> << "Revenues",
                   "RevenueFromContractWithCustomerExcludingAssessedTax",
                   "SalesRevenueNet" >>,
    net_income |-> << "NetIncomeLoss", "ProfitLoss" >>,
    total_assets |-> << "Assets" >>,
    stockholders_equity |-> << "StockholdersEquity" >>,
    operating_income |-> << "OperatingIncomeLoss" >>,
    eps_basic |-> << "EarningsPerShareBasic" >>,
    eps_diluted |-> << "EarningsPerShareDiluted" >>,
    current_assets |-> << "AssetsCurrent" >>,
    current_liabilities |-> << "LiabilitiesCurrent" >>,
    total_liabilities |-> << "Liabilities" >>,
    operating_cash_flow |-> << "NetCashProvidedByUsedInOperatingActivities" >> ]

\* the unit types whose entries contribute a period (line 233)
PeriodUnitTypes == { "USD", "USD/shares" }

\* the unit types tried for every metric, in this order (line 262)
UnitTrialOrder == << "USD", "USD/shares" >>

\* the filing forms kept (line 235)
AcceptedForms == { Some("10-K"), Some("10-Q") }

\* period_key = (entry.get('end'), entry.get('form'), entry.get('fy'))
PeriodKeyOf(entry) == << entry.end, entry.form, entry.fy >>

\* facts = company_facts.get('facts', {}); us_gaap = facts.get('us-gaap', {})
UsGaapOf(company_facts) ==
  Get(Get(company_facts, "facts", <<>>), "us-gaap", <<>>)

UnitsOf(us_gaap, sec_name) == Get(us_gaap[sec_name], "units", <<>>)

\* the periods one tag contributes to all_periods (lines 231-237)
TagPeriods(us_gaap, sec_name) ==
  IF sec_name \notin DOMAIN us_gaap THEN {}
  ELSE LET units == UnitsOf(us_gaap, sec_name)
       IN UNION { { PeriodKeyOf(units[u][i]) :
                      i \in { j \in DOMAIN units[u] :
                                units[u][j].form \in AcceptedForms } } :
                  u \in DOMAIN units \cap PeriodUnitTypes }

\* all_periods (lines 228-237)
AllPeriods(us_gaap) ==
  UNION { UNION { TagPeriods(us_gaap, metric_mappings[m][k]) :
                    k \in DOMAIN metric_mappings[m] } :
          m \in Range(MetricNames) }

\* the scan of one unit list going on past entries whose val is null
FirstMatch_NonNull(entries, key) ==
  LET idx == { i \in DOMAIN entries : /\ PeriodKeyOf(entries[i]) = key
                                      /\ entries[i].val # None }
  IN IF idx = {} THEN 0 ELSE CHOOSE i \in idx : \A j \in idx : i <= j

\* index of the first entry of the list matching the period, 0 if none
\* (lines 264-270: the inner for loop and its break)
FirstMatch(entries, key) ==
  LET idx == { i \in DOMAIN entries : PeriodKeyOf(entries[i]) = key }
  IN IF idx = {} THEN 0 ELSE CHOOSE i \in idx : \A j \in idx : i <= j

\* for unit_type in ['USD', 'USD/shares'] (lines 262-272); acc carries the
\* loop's value and filing_date
RECURSIVE ScanUnits(_, _, _, _)
ScanUnits(units, key, k, acc) ==
  IF k > Len(UnitTrialOrder) THEN acc
  ELSE LET unit_type == UnitTrialOrder[k]
           m == IF unit_type \in DOMAIN units
                THEN FirstMatch(units[unit_type], key) ELSE 0
           acc2 == IF m = 0 THEN acc
                   ELSE [ value |-> units[unit_type][m].val,
                          filing_date |-> units[unit_type][m].filed ]
       IN IF acc2.value # None THEN acc2
          ELSE ScanUnits(units, key, k + 1, acc2)

\* for sec_name in sec_names (lines 257-274)
RECURSIVE ScanAliases(_, _, _, _, _)
ScanAliases(us_gaap, sec_names, key, k, acc) ==
  IF k > Len(sec_names) THEN acc
  ELSE LET sec_name == sec_names[k]
           acc2 == IF sec_name \in DOMAIN us_gaap
                   THEN ScanUnits(UnitsOf(us_gaap, sec_name), key, 1, acc)
                   ELSE acc
       IN IF acc2.value # None THEN acc2
          ELSE ScanAliases(us_gaap, sec_names, key, k + 1, acc2)

\* value and filing_date of one metric for one period (lines 254-274)
ResolveMetric(us_gaap, metric_name, key) ==
  ScanAliases(us_gaap, metric_mappings[metric_name], key, 1,
              [ value |-> None, filing_date |-> None ])

\* the metric loop with the record's filing_date overwritten by every
\* metric that has one
RECURSIVE FillMetrics_LastFiled(_, _, _, _)
FillMetrics_LastFiled(us_gaap, key, k, rec) ==
  IF k > Len(MetricNames) THEN rec
  ELSE LET metric_name == MetricNames[k]
           r == ResolveMetric(us_gaap, metric_name, key)
           fd == IF TruthyStr(r.filing_date)
                 THEN r.filing_date ELSE rec.filing_date
       IN FillMetrics_LastFiled(us_gaap, key, k + 1,
            (metric_name :> r.value) @@ [ rec EXCEPT !.filing_date = fd ])

\* for metric_name, sec_names in metric_mappings.items() (lines 253-278)
RECURSIVE FillMetrics(_, _, _, _)
FillMetrics(us_gaap, key, k, rec) ==
  IF k > Len(MetricNames) THEN rec
  ELSE LET metric_name == MetricNames[k]
           r == ResolveMetric(us_gaap, metric_name, key)
           fd == IF TruthyStr(r.filing_date) /\ ~TruthyStr(rec.filing_date)
                 THEN r.filing_date ELSE rec.filing_date
       IN FillMetrics(us_gaap, key, k + 1,
            (metric_name :> r.value) @@ [ rec EXCEPT !.filing_date = fd ])

\* the financial_record of one period (lines 244-278)
BuildRecord(us_gaap, cik, key) ==
  FillMetrics(us_gaap, key, 1,
    [ cik |-> cik, period_end_date |-> key[1], form_type |-> key[2],
      fiscal_year |-> key[3], filing_date |-> None ])

\* the test of the period end alone
ValidPeriod_EndOnly(key) == TruthyStr(key[1])

\* if not all([period_end, form_type, fiscal_year]): continue (line 241)
ValidPeriod(key) == TruthyStr(key[1]) /\ TruthyStr(key[2]) /\ TruthyNum(key[3])

\* the filter testing that the metric keys are there, not their values
HasFinancialData_KeysOnly(rec) ==
  \E k \in DOMAIN MetricNames : MetricNames[k] \in DOMAIN rec

\* any(financial_record.get(metric) for metric in metric_mappings) (line 281)
HasFinancialData(rec) ==
  \E k \in DOMAIN MetricNames : TruthyNum(rec[MetricNames[k]])

\* the loop over all_periods (lines 240-282), visiting the set in the
\* order given by the sequence periods
RECURSIVE RecordsFor(_, _, _, _)
RecordsFor(us_gaap, cik, periods, k) ==
  IF k > Len(periods) THEN <<>>
  ELSE LET rest == RecordsFor(us_gaap, cik, periods, k + 1)
           rec == BuildRecord(us_gaap, cik, periods[k])
       IN IF ValidPeriod(periods[k]) /\ HasFinancialData(rec)
          THEN << rec >> \o rest ELSE rest

\* the orders in which a for loop may visit a set
Orderings(S) ==
  { f \in [ 1 .. Cardinality(S) -> S ] :
      \A a, b \in 1 .. Cardinality(S) : a # b => f[a] # f[b] }

\* extract_financial_metrics(company_facts, cik), with the set iteration
\* order of all_periods made explicit
extract_financial_metrics(company_facts, cik, periods) ==
  IF company_facts = None THEN <<>>
  ELSE RecordsFor(UsGaapOf(company_facts), cik, periods, 1)

\* a JSON null where the code expects a dict or a list
JsonNull == [ null |-> TRUE ]

\* the tags the two loops look up in us_gaap
MappedTags ==
  UNION { Range(metric_mappings[MetricNames[k]]) : k \in DOMAIN MetricNames }

\* the walk with company_facts['facts'] in place of .get('facts', {}): a
\* bag without the key raises KeyError
ExtractRaises_Subscript(company_facts) ==
  IF company_facts = None THEN FALSE
  ELSE IF "facts" \notin DOMAIN company_facts THEN TRUE
  ELSE LET facts == company_facts["facts"]
       IN IF facts = JsonNull THEN TRUE
          ELSE LET us_gaap == Get(facts, "us-gaap", <<>>)
               IN IF us_gaap = JsonNull THEN TRUE
                  ELSE \E t \in DOMAIN us_gaap \cap MappedTags :
                         \/ us_gaap[t] = JsonNull
                         \/ Get(us_gaap[t], "units", <<>>) = JsonNull

\* whether extract_financial_metrics raises on a bag whose dicts may be
\* null: None has no .get (lines 209-210, 232), no `in` (line 231) and no
\* .items() (line 232); a missing key is defaulted and never raises
ExtractRaises(company_facts) ==
  IF company_facts = None THEN FALSE
  ELSE LET facts == Get(company_facts, "facts", <<>>)
       IN IF facts = JsonNull THEN TRUE
          ELSE LET us_gaap == Get(facts, "us-gaap", <<>>)
               IN IF us_gaap = JsonNull THEN TRUE
                  ELSE \E t \in DOMAIN us_gaap \cap MappedTags :
                         \/ us_gaap[t] = JsonNull
                         \/ Get(us_gaap[t], "units", <<>>) = JsonNull

(***************************************************************************)
(* The SQLite store: init_database's schema and the two upserts            *)
(***************************************************************************)

\* sqlite3.connect never issues PRAGMA foreign_keys = ON, so the FOREIGN KEY
\* clause of financial_statements is parsed and not enforced
ForeignKeysEnforced == FALSE

\* the columns insert_financial_statement writes (lines 121-125)
StatementColumns ==
  << "cik", "filing_date", "period_end_date", "form_type", "fiscal_year",
     "fiscal_quarter", "revenue", "cost_of_revenue", "gross_profit",
     "operating_income", "net_income", "eps_basic", "eps_diluted",
     "total_assets", "current_assets", "total_liabilities",
     "current_liabilities", "stockholders_equity", "operating_cash_flow",
     "investing_cash_flow", "financing_cash_flow", "accession_number" >>

\* financial_data['...'] subscripts, a KeyError when absent (lines 128-132)
StatementRequiredKeys ==
  { "cik", "filing_date", "period_end_date", "form_type", "fiscal_year" }

\* the schema with a filing_date column that accepts NULL
StatementNotNull_DateNullable ==
  { "cik", "period_end_date", "form_type", "fiscal_year" }

\* the NOT NULL columns of financial_statements (lines 41-45)
StatementNotNull ==
  { "cik", "filing_date", "period_end_date", "form_type", "fiscal_year" }

\* UNIQUE(cik, period_end_date, form_type) (line 77)
StatementKey(row) == << row.cik, row.period_end_date, row.form_type >>

\* the tuple of values bound to the INSERT (lines 127-150)
StatementRow(financial_data) ==
  [ c \in Range(StatementColumns) |-> Get(financial_data, c, None) ]

\* the insert as INSERT OR IGNORE: a conflicting row keeps its old values
insert_financial_statement_Ignore(companies_tbl, statements, financial_data) ==
  IF ~(StatementRequiredKeys \subseteq DOMAIN financial_data)
  THEN [ ok |-> FALSE, statements |-> statements ]
  ELSE LET row == StatementRow(financial_data)
       IN IF \E c \in StatementNotNull : row[c] = None
          THEN [ ok |-> FALSE, statements |-> statements ]
          ELSE [ ok |-> TRUE,
                 statements |->
                   IF \E r \in statements :
                        StatementKey(r) = StatementKey(row)
                   THEN statements ELSE statements \cup { row } ]

\* insert_financial_statement: INSERT OR REPLACE, True on commit and False
\* on any exception (lines 114-157)
insert_financial_statement(companies_tbl, statements, financial_data) ==
  IF ~(StatementRequiredKeys \subseteq DOMAIN financial_data)
  THEN [ ok |-> FALSE, statements |-> statements ]
  ELSE LET row == StatementRow(financial_data)
       IN IF \E c \in StatementNotNull : row[c] = None
          THEN [ ok |-> FALSE, statements |-> statements ]
          ELSE IF ForeignKeysEnforced
                  /\ ~(\E c \in companies_tbl : c.cik = row.cik)
          THEN [ ok |-> FALSE, statements |-> statements ]
          ELSE [ ok |-> TRUE,
                 statements |->
                   { r \in statements : StatementKey(r) # StatementKey(row) }
                     \cup { row } ]

\* company_data['...'] subscripts (lines 100-102)
CompanyRequiredKeys == { "cik", "ticker", "company_name" }

\* the NOT NULL columns of companies (lines 28-29)
CompanyNotNull == { "ticker", "company_name" }

\* the values bound to the INSERT into companies (lines 99-106)
CompanyRow(company_data) ==
  [ cik |-> company_data.cik, ticker |-> company_data.ticker,
    company_name |-> company_data.company_name,
    sic_code |-> Get(company_data, "sic_code", None),
    industry |-> Get(company_data, "industry", None) ]

\* the insert as INSERT OR IGNORE: a conflicting row keeps its old values
insert_company_Ignore(companies_tbl, company_data) ==
  IF ~(CompanyRequiredKeys \subseteq DOMAIN company_data)
  THEN [ ok |-> FALSE, companies |-> companies_tbl ]
  ELSE LET row == CompanyRow(company_data)
       IN IF \E c \in CompanyNotNull : row[c] = None
          THEN [ ok |-> FALSE, companies |-> companies_tbl ]
          ELSE [ ok |-> TRUE,
                 companies |->
                   IF \E r \in companies_tbl :
                        r.cik = row.cik \/ r.ticker = row.ticker
                   THEN companies_tbl ELSE companies_tbl \cup { row } ]

\* insert_company: INSERT OR REPLACE deletes every row that conflicts on the
\* primary key cik or on the UNIQUE ticker, then inserts (lines 90-112)
insert_company(companies_tbl, company_data) ==
  IF ~(CompanyRequiredKeys \subseteq DOMAIN company_data)
  THEN [ ok |-> FALSE, companies |-> companies_tbl ]
  ELSE LET row == CompanyRow(company_data)
       IN IF \E c \in CompanyNotNull : row[c] = None
          THEN [ ok |-> FALSE, companies |-> companies_tbl ]
          ELSE [ ok |-> TRUE,
                 companies |->
                   { r \in companies_tbl :
                       r.cik # row.cik /\ r.ticker # row.ticker }
                     \cup { row } ]

(***************************************************************************)
(* export_for_powerbi: the SELECT over financial_statements JOIN companies  *)
(*                                                                         *)
(* A REAL the query rounds to two decimals is held as its number of        *)
(* hundredths: 33.33 is 3333, 0.13 is 13.                                   *)
(***************************************************************************)

\* the second argument of every ROUND of the query (lines 194-236)
RoundDecimals == 2

\* 10 ^ RoundDecimals
RECURSIVE Pow10(_)
Pow10(n) == IF n = 0 THEN 1 ELSE 10 * Pow10(n - 1)

\* the divisor of the _millions columns (line 194)
Million == 1000000

\* the factor of the three percentages (lines 219, 224, 234)
Percent == 100

\* a division that truncates toward zero instead of rounding
RoundDiv_Truncate(n, d) ==
  IF n >= 0 THEN n \div d ELSE 0 - ((0 - n) \div d)

\* n / d rounded to the nearest integer, a half away from zero, for d > 0:
\* SQLite's ROUND
RoundDiv(n, d) ==
  IF n >= 0 THEN (2 * n + d) \div (2 * d)
  ELSE 0 - ((2 * (0 - n) + d) \div (2 * d))

\* ROUND(x / 1000000.0, 2); NULL for a NULL x
Millions(x) ==
  IF x = None THEN None
  ELSE Some(RoundDiv(x[1] * Pow10(RoundDecimals), Million))

\* the guard WHEN den <> 0: a negative denominator gives a ratio
GuardedRatio_NonZero(num, den, factor) ==
  IF den = None \/ den = Some(0) THEN None
  ELSE IF num = None THEN None
  ELSE IF den[1] > 0
       THEN Some(RoundDiv(num[1] * factor * Pow10(RoundDecimals), den[1]))
       ELSE Some(RoundDiv((0 - num[1]) * factor * Pow10(RoundDecimals),
                          0 - den[1]))

\* CASE WHEN den > 0 THEN ROUND(num * factor / den, 2) ELSE NULL END
\* (lines 218-236); a comparison with NULL is not true, and an arithmetic
\* on NULL is NULL
GuardedRatio(num, den, factor) ==
  IF den = None \/ den[1] <= 0 THEN None
  ELSE IF num = None THEN None
  ELSE Some(RoundDiv(num[1] * factor * Pow10(RoundDecimals), den[1]))

\* the strings of the model in the order of SQLite's BINARY collation
TextOrder ==
  << "0000320193", "0000789019", "0001652044", "10-K", "10-Q", "AAPL",
     "GOOG", "GOOGL", "MSFT" >>

\* NULL sorts before every string
TextRank(x) ==
  IF x = None THEN 0
  ELSE CHOOSE i \in DOMAIN TextOrder : TextOrder[i] = x[1]

\* the row the query builds from a statement and its company (lines 185-237)
ExportRow(fs, c) ==
  [ ticker |-> c.ticker,
    company_name |-> c.company_name,
    industry |-> c.industry,
    fiscal_year |-> fs.fiscal_year,
    fiscal_quarter |-> fs.fiscal_quarter,
    form_type |-> fs.form_type,
    filing_date |-> fs.filing_date,
    period_end_date |-> fs.period_end_date,
    revenue_millions |-> Millions(fs.revenue),
    cost_of_revenue_millions |-> Millions(fs.cost_of_revenue),
    gross_profit_millions |-> Millions(fs.gross_profit),
    operating_income_millions |-> Millions(fs.operating_income),
    net_income_millions |-> Millions(fs.net_income),
    eps_basic |-> fs.eps_basic,
    eps_diluted |-> fs.eps_diluted,
    total_assets_millions |-> Millions(fs.total_assets),
    current_assets_millions |-> Millions(fs.current_assets),
    total_liabilities_millions |-> Millions(fs.total_liabilities),
    current_liabilities_millions |-> Millions(fs.current_liabilities),
    stockholders_equity_millions |-> Millions(fs.stockholders_equity),
    operating_cash_flow_millions |-> Millions(fs.operating_cash_flow),
    investing_cash_flow_millions |-> Millions(fs.investing_cash_flow),
    financing_cash_flow_millions |-> Millions(fs.financing_cash_flow),
    net_margin_percent |-> GuardedRatio(fs.net_income, fs.revenue, Percent),
    operating_margin_percent |->
      GuardedRatio(fs.operating_income, fs.revenue, Percent),
    current_ratio |->
      GuardedRatio(fs.current_assets, fs.current_liabilities, 1),
    debt_to_assets_percent |->
      GuardedRatio(fs.total_liabilities, fs.total_assets, Percent) ]

\* the companies row of a LEFT JOIN that found no company
NullCompany ==
  [ cik |-> None, ticker |-> None, company_name |-> None,
    sic_code |-> None, industry |-> None ]

\* the join as a LEFT JOIN: a statement without a company gives a row too
JoinedRows_LeftJoin(companies_tbl, statements) ==
  { << fs, c >> \in statements \X companies_tbl :
      fs.cik = c.cik /\ fs.revenue # None }
    \cup { << fs, NullCompany >> :
             fs \in { x \in statements :
                        /\ x.revenue # None
                        /\ ~(\E c \in companies_tbl : c.cik = x.cik) } }

\* FROM financial_statements fs JOIN companies c ON fs.cik = c.cik
\* WHERE fs.revenue IS NOT NULL (lines 239-241)
JoinedRows(companies_tbl, statements) ==
  { << fs, c >> \in statements \X companies_tbl :
      fs.cik = c.cik /\ fs.revenue # None }

\* the ORDER BY with fiscal_year ascending
OrderByLess_YearAscending(a, b) ==
  \/ TextRank(a[2].ticker) < TextRank(b[2].ticker)
  \/ /\ a[2].ticker = b[2].ticker
     /\ \/ a[1].fiscal_year[1] < b[1].fiscal_year[1]
        \/ /\ a[1].fiscal_year = b[1].fiscal_year
           /\ TextRank(a[1].form_type) < TextRank(b[1].form_type)

\* a sorts strictly before b under
\* ORDER BY c.ticker, fs.fiscal_year DESC, fs.form_type (line 242)
OrderByLess(a, b) ==
  \/ TextRank(a[2].ticker) < TextRank(b[2].ticker)
  \/ /\ a[2].ticker = b[2].ticker
     /\ \/ a[1].fiscal_year[1] > b[1].fiscal_year[1]
        \/ /\ a[1].fiscal_year = b[1].fiscal_year
           /\ TextRank(a[1].form_type) < TextRank(b[1].form_type)

\* the DataFrames the query may return: the joined rows in an order the
\* ORDER BY allows (rows equal on its three terms come in any order)
export_for_powerbi(companies_tbl, statements) ==
  LET joined == JoinedRows(companies_tbl, statements)
  IN { [ i \in DOMAIN order |-> ExportRow(order[i][1], order[i][2]) ] :
         order \in { o \in Orderings(joined) :
                       \A i, j \in DOMAIN o :
                         i < j => ~OrderByLess(o[j], o[i]) } }

(***************************************************************************)
(* Inputs: what the SEC endpoints return (the black box of _make_request)  *)
(***************************************************************************)

\* the most observations one run's fact bags hold
MaxObs == 3

\* the most rows the statements table holds under direct calls
MaxStatements == 2

\* the number of times the pipeline is run on the same database
MaxRuns == 2

Apple == Some("0000320193")
YearEnd == Some("2023-12-31")
FiledFeb == Some("2024-02-01")
FiledMar == Some("2024-03-15")

\* one reported fact: the company and tag and unit list it sits in, and the
\* entry itself (end, form, fy, filed, val)
ObsOf(ciks, tags, units, ends, forms, fys, fileds, vals) ==
  [ cik : ciks, tag : tags, unit : units, end : ends, form : forms,
    fy : fys, filed : fileds, val : vals ]

\* two aliases of revenue under both tried units, values present or null
AliasObs ==
  ObsOf({Apple}, {"Revenues", "SalesRevenueNet"}, {"USD", "USD/shares"},
        {YearEnd}, {Some("10-K")}, {Some(2023)}, {FiledFeb},
        {None, Some(100), Some(250)})

\* an absolute-currency tag and a per-share tag under three unit types
UnitObs ==
  ObsOf({Apple}, {"Assets", "EarningsPerShareBasic"},
        {"USD", "USD/shares", "shares"},
        {YearEnd}, {Some("10-K")}, {Some(2023)}, {FiledFeb},
        {Some(100), Some(250)})

\* one tag over periods that differ in end and fiscal year, value present
\* or null
PeriodObs ==
  ObsOf({Apple}, {"Revenues"}, {"USD"},
        {YearEnd, None}, {Some("10-K")},
        {Some(2023), Some(2024), None}, {FiledFeb}, {None, Some(100)})

\* the two accepted forms, another form and a missing form
FormObs ==
  ObsOf({Apple}, {"Revenues", "Assets"}, {"USD"},
        {YearEnd}, {Some("10-K"), Some("10-Q"), Some("10-KT"), None},
        {Some(2023)}, {FiledFeb}, {Some(100), Some(250)})

\* two metrics with zero, null and present values and filing dates
ValueObs ==
  ObsOf({Apple}, {"Revenues", "Assets"}, {"USD"},
        {YearEnd}, {Some("10-K")}, {Some(2023)},
        {FiledFeb, FiledMar, None}, {None, Some(0), Some(100)})

ObsFamilies == { AliasObs, UnitObs, PeriodObs, FormObs, ValueObs }

\* the lists of at most n observations over a set
ListsUpTo(S, n) == UNION { [ 1 .. k -> S ] : k \in 0 .. n }

\* the observation lists of the extraction runs: each from one family
ExtractObsLists == UNION { ListsUpTo(F, MaxObs) : F \in ObsFamilies }

EntryOf(o) ==
  [ end |-> o.end, form |-> o.form, fy |-> o.fy, filed |-> o.filed,
    val |-> o.val ]

\* the entries of one unit list, in their order in the response
EntriesOf(obs, cik, tag, unit) ==
  LET sel == SelectSeq(obs, LAMBDA o : o.cik = cik /\ o.tag = tag
                                        /\ o.unit = unit)
  IN [ i \in 1 .. Len(sel) |-> EntryOf(sel[i]) ]

\* the companyfacts response of one company:
\* {'facts': {'us-gaap': {tag: {'units': {unit: [entry, ...]}}}}}
BagOf(obs, cik) ==
  LET mine == { o \in Range(obs) : o.cik = cik }
      tags == { o.tag : o \in mine }
      unitsOf(t) == { o.unit : o \in { x \in mine : x.tag = t } }
  IN "facts" :> ("us-gaap" :>
       [ t \in tags |->
           [ units |-> [ u \in unitsOf(t) |-> EntriesOf(obs, cik, t, u) ] ] ])

\* an element of find_companies_by_tickers' result
CompanyOf(cik, ticker, company_name) ==
  [ cik |-> cik, ticker |-> ticker, company_name |-> company_name ]

Alphabet == Some("0001652044")

\* the most observations the fact bags of one pipeline run hold
MaxPipelineObs == 2

\* the facts the pipeline runs are fed: two companies, two metrics, two
\* fiscal years for one period end, entries with and without a filed date
PipelineObs ==
  ObsOf({Alphabet, Apple}, {"Revenues", "NetIncomeLoss"}, {"USD"},
        {YearEnd}, {Some("10-K")}, {Some(2023), Some(2024)},
        {FiledFeb, None}, {Some(1000)})

PipelineObsLists == ListsUpTo(PipelineObs, MaxPipelineObs)

\* results of find_companies_by_tickers: GOOGL and GOOG share one CIK, and
\* listings whose title is null, alone and before another company
PipelineCompanyLists ==
  { <<>>,
    << CompanyOf(Apple, Some("AAPL"), Some("Apple Inc.")) >>,
    << CompanyOf(Apple, Some("AAPL"), None) >>,
    << CompanyOf(Alphabet, Some("GOOGL"), Some("Alphabet Inc.")),
       CompanyOf(Apple, Some("AAPL"), Some("Apple Inc.")) >>,
    << CompanyOf(Alphabet, Some("GOOGL"), Some("Alphabet Inc.")),
       CompanyOf(Alphabet, Some("GOOG"), Some("Alphabet Inc.")) >>,
    << CompanyOf(Alphabet, Some("GOOGL"), None),
       CompanyOf(Apple, Some("AAPL"), Some("Apple Inc.")) >> }

\* arguments of direct insert_company calls
CompanyInputs ==
  [ cik : {Alphabet, Apple}, ticker : {Some("GOOGL"), Some("AAPL"), None},
    company_name : {Some("Alphabet Inc."), None} ]

\* arguments of direct insert_financial_statement calls
StatementInputs ==
  [ cik : {Alphabet, Apple}, filing_date : {FiledFeb, None},
    period_end_date : {YearEnd}, form_type : {Some("10-K"), Some("10-Q")},
    fiscal_year : {Some(2023), Some(2024), None},
    revenue : {None, Some(1000)} ]

Microsoft == Some("0000789019")

\* the most rows of the statements table an export reads
MaxExportRows == 3
MaxFaults == 1

\* the companies tables export_for_powerbi is run on: with and without the
\* row of Microsoft
ExportCompanyTables ==
  LET aapl == CompanyRow(CompanyOf(Apple, Some("AAPL"), Some("Apple Inc.")))
      googl == CompanyRow(CompanyOf(Alphabet, Some("GOOGL"),
                                    Some("Alphabet Inc.")))
      msft == CompanyRow(CompanyOf(Microsoft, Some("MSFT"),
                                   Some("Microsoft Corp")))
  IN { { aapl, googl, msft }, { aapl, googl } }

\* income statements: revenue null, zero, negative and positive against
\* net and operating income
RatioStatements ==
  [ cik : {Apple}, filing_date : {FiledFeb}, period_end_date : {YearEnd},
    form_type : {Some("10-K")}, fiscal_year : {Some(2023)},
    revenue : {None, Some(0), Some(0 - 8), Some(3), Some(8), Some(1000)},
    net_income : {None, Some(0 - 1), Some(1), Some(100)},
    operating_income : {None, Some(1)} ]

\* balance sheets: the two denominators null, zero, negative and positive
BalanceStatements ==
  [ cik : {Apple}, filing_date : {FiledFeb}, period_end_date : {YearEnd},
    form_type : {Some("10-K")}, fiscal_year : {Some(2023)},
    revenue : {Some(1000)},
    current_assets : {None, Some(0 - 1), Some(1)},
    current_liabilities : {None, Some(0), Some(0 - 8), Some(3), Some(8)},
    total_liabilities : {None, Some(1)},
    total_assets : {None, Some(0), Some(0 - 8), Some(3), Some(8)} ]

\* statements of three companies over two forms and two fiscal years, with
\* and without revenue
OrderStatements ==
  [ cik : {Alphabet, Apple, Microsoft}, filing_date : {FiledFeb},
    period_end_date : {YearEnd}, form_type : {Some("10-K"), Some("10-Q")},
    fiscal_year : {Some(2023), Some(2024)},
    revenue : {None, Some(1000)} ]

\* the table a list of successful upserts leaves
RECURSIVE StatementsAfter(_, _, _, _)
StatementsAfter(companies_tbl, statements, records, k) ==
  IF k > Len(records) THEN statements
  ELSE StatementsAfter(companies_tbl,
         insert_financial_statement(companies_tbl, statements,
                                    records[k]).statements,
         records, k + 1)

\* the statements tables export_for_powerbi is run on
ExportStatementTables(companies_tbl) ==
  { StatementsAfter(companies_tbl, {}, << x >>, 1) :
      x \in RatioStatements \cup BalanceStatements }
    \cup { StatementsAfter(companies_tbl, {}, l, 1) :
             l \in ListsUpTo(OrderStatements, MaxExportRows) }

(***************************************************************************)
(* State                                                                   *)
(***************************************************************************)
VARIABLES
  found_companies,      \* what find_companies_by_tickers returns
  company_facts,        \* cik -> what get_company_facts returns
  pc,                   \* "api", "collect", "save_companies",
                        \* "save_financial", "export", "done"
  idx,                  \* position of the running for loop
  financial_data,       \* the records collected so far / being saved
  saved_count,          \* main's saved_count
  companies_table,      \* rows of companies
  financial_statements, \* rows of financial_statements
  last_call,            \* the last store call: its name, its result,
                        \* whether it replaced a different row, whether
                        \* the cik it names had a companies row
  latest_upsert,        \* key -> row of its latest successful upsert
  runs,                 \* the run of the pipeline in progress
  first_run_statements, \* financial_statements when the first run ended
  df,                   \* the rows export_for_powerbi returned
  raised,               \* the ciks whose processing raised (line 315)
  save_log,             \* the store calls of the save loops of this run:
                        \* the loop, the item's position, the result,
                        \* whether the call met an I/O error
  faults_left,          \* the I/O errors the database file may still
                        \* produce (sqlite3.Error out of connect, execute
                        \* or commit)
  request               \* the _make_request call under way: its
                        \* max_retries, the loop's attempt, the outcomes
                        \* of the attempts made, the sleeps, the result

vars ==
  << found_companies, company_facts, pc, idx, financial_data, saved_count,
     companies_table, financial_statements, last_call, latest_upsert, runs,
     first_run_statements, df, raised, save_log, faults_left, request >>

\* no _make_request call under way
NoRequest ==
  [ state |-> "none", max_retries |-> 0, attempt |-> 0, outcomes |-> <<>>,
    sleeps |-> <<>>, result |-> None ]

NoCall ==
  [ op |-> "none", ok |-> FALSE, replaced |-> FALSE, entity_exists |-> FALSE,
    io_error |-> FALSE ]

\* a fresh database and no run under way
EmptyStore ==
  /\ companies_table = {}
  /\ financial_statements = {}
  /\ last_call = NoCall
  /\ latest_upsert = <<>>
  /\ first_run_statements = {}
  /\ financial_data = <<>>
  /\ saved_count = 0
  /\ idx = 1
  /\ runs = 1
  /\ df = <<>>
  /\ raised = {}
  /\ save_log = <<>>

\* whether a store call meets an I/O error of the database file: any
\* sqlite3.Error out of connect, execute or commit, while the file can
\* still produce one
IoOutcomes == IF faults_left > 0 THEN BOOLEAN ELSE { FALSE }

\* the effect of one insert_financial_statement call on the state; an I/O
\* error is caught by the except of line 155: the call returns False and
\* the transaction is not committed
DoInsertStatement(financial_record) ==
  \E io_error \in IoOutcomes :
    LET res == IF io_error
               THEN [ ok |-> FALSE, statements |-> financial_statements ]
               ELSE insert_financial_statement(companies_table,
                                               financial_statements,
                                               financial_record)
        row == StatementRow(financial_record)
    IN /\ financial_statements' = res.statements
       /\ last_call' =
            [ op |-> "insert_financial_statement", ok |-> res.ok,
              replaced |-> res.ok /\ \E r \in financial_statements :
                              StatementKey(r) = StatementKey(row) /\ r # row,
              entity_exists |-> \E c \in companies_table : c.cik = row.cik,
              io_error |-> io_error ]
       /\ latest_upsert' =
            IF res.ok THEN (StatementKey(row) :> row) @@ latest_upsert
            ELSE latest_upsert
       /\ faults_left' = IF io_error THEN faults_left - 1 ELSE faults_left
       /\ UNCHANGED companies_table

\* the effect of one insert_company call on the state; an I/O error is
\* caught by the except of line 110
DoInsertCompany(company_data) ==
  \E io_error \in IoOutcomes :
    LET res == IF io_error
               THEN [ ok |-> FALSE, companies |-> companies_table ]
               ELSE insert_company(companies_table, company_data)
    IN /\ companies_table' = res.companies
       /\ last_call' =
            [ op |-> "insert_company", ok |-> res.ok,
              replaced |-> res.ok /\ \E r \in companies_table :
                              r.cik = company_data.cik
                              \/ r.ticker = company_data.ticker,
              entity_exists |-> \E r \in companies_table :
                                  r.cik = company_data.cik,
              io_error |-> io_error ]
       /\ faults_left' = IF io_error THEN faults_left - 1 ELSE faults_left
       /\ UNCHANGED << financial_statements, latest_upsert >>

\* the effect of one export_for_powerbi call on the state
DoExport ==
  /\ df' \in export_for_powerbi(companies_table, financial_statements)
  /\ last_call' = [ NoCall EXCEPT !.op = "export_for_powerbi", !.ok = TRUE ]
  /\ UNCHANGED << companies_table, financial_statements, latest_upsert,
                  faults_left >>

(***************************************************************************)
(* Direct use of the store                                                 *)
(***************************************************************************)
InitStore ==
  /\ found_companies = <<>>
  /\ company_facts = <<>>
  /\ pc = "api"
  /\ EmptyStore
  /\ faults_left = 0
  /\ request = NoRequest

CallInsertCompany ==
  /\ pc = "api"
  /\ \E company_data \in CompanyInputs : DoInsertCompany(company_data)
  /\ UNCHANGED << found_companies, company_facts, pc, idx, financial_data,
                  saved_count, runs, first_run_statements, df, raised,
                  save_log, request >>

CallInsertFinancialStatement ==
  /\ pc = "api"
  /\ \E financial_record \in StatementInputs :
       /\ Cardinality(insert_financial_statement(companies_table,
            financial_statements, financial_record).statements)
            <= MaxStatements
       /\ DoInsertStatement(financial_record)
  /\ UNCHANGED << found_companies, company_facts, pc, idx, financial_data,
                  saved_count, runs, first_run_statements, df, raised,
                  save_log, request >>

NextStore == CallInsertCompany \/ CallInsertFinancialStatement

SpecStore == InitStore /\ [][NextStore]_vars

(***************************************************************************)
(* The pipeline of main()                                                  *)
(***************************************************************************)

\* the company loop without the try of lines 302-317: an exception out of
\* one company's processing ends collect_company_data and, through the
\* except of main (line 118), the run
CollectCompany_RaiseEndsRun ==
  /\ pc = "collect"
  /\ idx <= Len(found_companies)
  /\ LET company == found_companies[idx]
         facts == company_facts[company.cik]
     IN IF ExtractRaises(facts)
        THEN /\ financial_data' = financial_data
             /\ raised' = raised \cup { company.cik }
             /\ pc' = "done"
             /\ idx' = idx
        ELSE /\ \E periods \in Orderings(AllPeriods(UsGaapOf(facts))) :
                  financial_data' = financial_data \o
                    extract_financial_metrics(facts, company.cik, periods)
             /\ raised' = raised
             /\ IF idx = Len(found_companies)
                THEN pc' = "save_companies" /\ idx' = 1
                ELSE pc' = pc /\ idx' = idx + 1
  /\ UNCHANGED << found_companies, company_facts, saved_count,
                  companies_table, financial_statements, last_call,
                  latest_upsert, runs, first_run_statements, df,
                  save_log, faults_left, request >>

\* collect_company_data's loop body for one company (lines 299-317): an
\* exception of the extraction is logged and the loop continues
CollectCompany ==
  /\ pc = "collect"
  /\ idx <= Len(found_companies)
  /\ LET company == found_companies[idx]
         facts == company_facts[company.cik]
     IN IF ExtractRaises(facts)
        THEN /\ financial_data' = financial_data
             /\ raised' = raised \cup { company.cik }
        ELSE /\ \E periods \in Orderings(AllPeriods(UsGaapOf(facts))) :
                  financial_data' = financial_data \o
                    extract_financial_metrics(facts, company.cik, periods)
             /\ raised' = raised
  /\ IF idx = Len(found_companies)
     THEN pc' = "save_companies" /\ idx' = 1
     ELSE pc' = pc /\ idx' = idx + 1
  /\ UNCHANGED << found_companies, company_facts, saved_count,
                  companies_table, financial_statements, last_call,
                  latest_upsert, runs, first_run_statements, df,
                  save_log, faults_left, request >>

\* no company found: collect_company_data returns empty lists (line 293)
\* and main returns (line 58)
NoCompanies ==
  /\ pc = "collect"
  /\ found_companies = <<>>
  /\ pc' = "done"
  /\ UNCHANGED << found_companies, company_facts, idx, financial_data,
                  saved_count, companies_table, financial_statements,
                  last_call, latest_upsert, runs, first_run_statements,
                  df, raised, save_log, faults_left, request >>

\* the company loop handing over to the record loop after its first company
SaveCompany_FirstOnly ==
  /\ pc = "save_companies"
  /\ idx <= Len(found_companies)
  /\ DoInsertCompany(found_companies[idx])
  /\ idx' = 1
  /\ pc' = IF financial_data = <<>> THEN "export" ELSE "save_financial"
  /\ saved_count' = 0
  /\ save_log' = Append(save_log, [ loop |-> "companies", item |-> idx,
                                    ok |-> last_call'.ok,
                                    io |-> last_call'.io_error ])
  /\ UNCHANGED << found_companies, company_facts, financial_data, runs,
                  first_run_statements, df, raised, request >>

\* Step 2 of main: one iteration of the company loop (lines 68-71)
SaveCompany ==
  /\ pc = "save_companies"
  /\ idx <= Len(found_companies)
  /\ DoInsertCompany(found_companies[idx])
  /\ IF idx < Len(found_companies)
     THEN pc' = pc /\ idx' = idx + 1
     ELSE /\ idx' = 1
          /\ pc' = IF financial_data = <<>> THEN "export"
                   ELSE "save_financial"
  /\ saved_count' = IF idx < Len(found_companies) THEN saved_count ELSE 0
  /\ save_log' = Append(save_log, [ loop |-> "companies", item |-> idx,
                                    ok |-> last_call'.ok,
                                    io |-> last_call'.io_error ])
  /\ UNCHANGED << found_companies, company_facts, financial_data, runs,
                  first_run_statements, df, raised, request >>

\* the record loop leaving at the first record that is not saved
SaveFinancial_AbortOnFailure ==
  /\ pc = "save_financial"
  /\ idx <= Len(financial_data)
  /\ DoInsertStatement(financial_data[idx])
  /\ saved_count' = IF last_call'.ok THEN saved_count + 1 ELSE saved_count
  /\ IF idx < Len(financial_data) /\ last_call'.ok
     THEN pc' = pc /\ idx' = idx + 1
     ELSE pc' = "export" /\ idx' = idx
  /\ save_log' = Append(save_log, [ loop |-> "financial_data", item |-> idx,
                                    ok |-> last_call'.ok,
                                    io |-> last_call'.io_error ])
  /\ UNCHANGED << found_companies, company_facts, financial_data, runs,
                  first_run_statements, df, raised, request >>

\* Step 3 of main: one iteration of the record loop (lines 76-79)
SaveFinancial ==
  /\ pc = "save_financial"
  /\ idx <= Len(financial_data)
  /\ DoInsertStatement(financial_data[idx])
  /\ saved_count' = IF last_call'.ok THEN saved_count + 1 ELSE saved_count
  /\ IF idx < Len(financial_data)
     THEN pc' = pc /\ idx' = idx + 1
     ELSE pc' = "export" /\ idx' = idx
  /\ save_log' = Append(save_log, [ loop |-> "financial_data", item |-> idx,
                                    ok |-> last_call'.ok,
                                    io |-> last_call'.io_error ])
  /\ UNCHANGED << found_companies, company_facts, financial_data, runs,
                  first_run_statements, df, raised, request >>

\* Step 5 of main: the export (line 95)
Export ==
  /\ pc = "export"
  /\ DoExport
  /\ pc' = "done"
  /\ UNCHANGED << found_companies, company_facts, idx, financial_data,
                  saved_count, runs, first_run_statements, raised, save_log,
                  request >>

\* main.py is run again on the database the previous run left
Rerun ==
  /\ pc = "done"
  /\ runs < MaxRuns
  /\ runs' = runs + 1
  /\ first_run_statements' =
       IF runs = 1 THEN financial_statements ELSE first_run_statements
  /\ pc' = "collect"
  /\ idx' = 1
  /\ financial_data' = <<>>
  /\ saved_count' = 0
  /\ df' = <<>>
  /\ raised' = {}
  /\ save_log' = <<>>
  /\ UNCHANGED << found_companies, company_facts, companies_table,
                  financial_statements, last_call, latest_upsert,
                  faults_left, request >>

Init ==
  /\ found_companies \in PipelineCompanyLists
  /\ \E obs \in PipelineObsLists :
       company_facts = [ cik \in {Alphabet, Apple} |-> BagOf(obs, cik) ]
  /\ pc = "collect"
  /\ EmptyStore
  /\ faults_left = 0
  /\ request = NoRequest

Next ==
  \/ CollectCompany
  \/ NoCompanies
  \/ SaveCompany
  \/ SaveFinancial
  \/ Export
  \/ Rerun

Spec == Init /\ [][Next]_vars

\* the pipeline on a database file that produces I/O errors
InitFault ==
  /\ found_companies \in PipelineCompanyLists
  /\ \E obs \in PipelineObsLists :
       company_facts = [ cik \in {Alphabet, Apple} |-> BagOf(obs, cik) ]
  /\ pc = "collect"
  /\ EmptyStore
  /\ faults_left = MaxFaults
  /\ request = NoRequest

SpecFault == InitFault /\ [][Next]_vars

(***************************************************************************)
(* extract_financial_metrics on its own                                    *)
(***************************************************************************)
OneCompany == << CompanyOf(Apple, Some("AAPL"), Some("Apple Inc.")) >>

\* one good observation of total assets
AssetsObs ==
  [ cik |-> Apple, tag |-> "Assets", unit |-> "USD", end |-> YearEnd,
    form |-> Some("10-K"), fy |-> Some(2023), filed |-> FiledFeb,
    val |-> Some(100) ]

\* a tag as the API describes it, without its 'units'
TagWithoutUnits == [ label |-> Some("Revenues") ]

\* responses that are absent or lack a level: None (an empty dict has the
\* same truth value), no 'facts', no 'us-gaap', a tag without 'units' alone
\* and next to a complete tag; and responses with a null at a level
MalformedBags ==
  { None,
    "entityName" :> Some("Apple Inc."),
    "facts" :> <<>>,
    "facts" :> ("dei" :> <<>>),
    "facts" :> ("us-gaap" :> ("Revenues" :> TagWithoutUnits)),
    "facts" :> ("us-gaap" :>
      (("Revenues" :> TagWithoutUnits)
         @@ UsGaapOf(BagOf(<< AssetsObs >>, Apple)))),
    "facts" :> JsonNull,
    "facts" :> ("us-gaap" :> JsonNull),
    "facts" :> ("us-gaap" :> ("Revenues" :> JsonNull)),
    "facts" :> ("us-gaap" :> ("Revenues" :> [ units |-> JsonNull ])) }

InitExtract ==
  /\ found_companies = OneCompany
  /\ \/ \E obs \in ExtractObsLists :
          company_facts = [ cik \in {Apple} |-> BagOf(obs, cik) ]
     \/ \E bag \in MalformedBags :
          company_facts = [ cik \in {Apple} |-> bag ]
  /\ pc = "collect"
  /\ EmptyStore
  /\ faults_left = 0
  /\ request = NoRequest

NextExtract == CollectCompany

SpecExtract == InitExtract /\ [][NextExtract]_vars

(***************************************************************************)
(* The pipeline on fact bags that hold one annual revenue and at most one  *)
(* net income                                                              *)
(***************************************************************************)
EndToEndRevenues == { 1000, 3 }
EndToEndNetIncomes == { None, Some(100), Some(2) }

\* a Revenues USD observation of value r and, unless n is None, a
\* NetIncomeLoss USD observation of value n for the same end, form, fy and
\* filed
EndToEndObs(cik, r, n) ==
  LET o(tag, val) ==
        [ cik |-> cik, tag |-> tag, unit |-> "USD", end |-> YearEnd,
          form |-> Some("10-K"), fy |-> Some(2023), filed |-> FiledFeb,
          val |-> val ]
  IN IF n = None THEN << o("Revenues", Some(r)) >>
     ELSE << o("Revenues", Some(r)), o("NetIncomeLoss", n) >>

InitEndToEnd ==
  /\ found_companies \in PipelineCompanyLists
  /\ \E f \in [ {Alphabet, Apple} -> EndToEndRevenues \X EndToEndNetIncomes ] :
       company_facts =
         [ cik \in {Alphabet, Apple} |->
             BagOf(EndToEndObs(cik, f[cik][1], f[cik][2]), cik) ]
  /\ pc = "collect"
  /\ EmptyStore
  /\ faults_left = 0
  /\ request = NoRequest

SpecEndToEnd == InitEndToEnd /\ [][Next]_vars

(***************************************************************************)
(* The pipeline when get_company_facts returns nothing for a company or    *)
(* a response extract_financial_metrics cannot walk                       *)
(***************************************************************************)

\* per company: a response with one annual revenue, no response (None
\* after the retries of _make_request), a response whose 'facts' is null
CollectBags(cik) ==
  { BagOf(EndToEndObs(cik, 1000, None), cik), None, "facts" :> JsonNull }

InitCollect ==
  /\ found_companies \in PipelineCompanyLists
  /\ \E a \in CollectBags(Alphabet), b \in CollectBags(Apple) :
       company_facts = (Alphabet :> a) @@ (Apple :> b)
  /\ pc = "collect"
  /\ EmptyStore
  /\ faults_left = 0
  /\ request = NoRequest

SpecCollect == InitCollect /\ [][Next]_vars

(***************************************************************************)
(* interactive_init.run_pipeline: the database file is deleted, then the   *)
(* steps of main                                                           *)
(***************************************************************************)

\* what an earlier run for MSFT left in the database file
OldCompanies ==
  insert_company({}, CompanyOf(Microsoft, Some("MSFT"),
                               Some("Microsoft Corp"))).companies

OldStatements ==
  StatementsAfter(OldCompanies, {},
    << [ cik |-> Microsoft, filing_date |-> FiledFeb,
         period_end_date |-> YearEnd, form_type |-> Some("10-K"),
         fiscal_year |-> Some(2023), revenue |-> Some(1000) ] >>, 1)

\* the file does not exist, or holds the rows of the earlier run
InitInteractive ==
  /\ found_companies \in PipelineCompanyLists
  /\ \E obs \in PipelineObsLists :
       company_facts = [ cik \in {Alphabet, Apple} |-> BagOf(obs, cik) ]
  /\ pc = "clear"
  /\ \/ companies_table = {} /\ financial_statements = {}
     \/ companies_table = OldCompanies /\ financial_statements = OldStatements
  /\ latest_upsert =
       [ k \in { StatementKey(r) : r \in financial_statements } |->
           CHOOSE r \in financial_statements : StatementKey(r) = k ]
  /\ last_call = NoCall
  /\ first_run_statements = {}
  /\ financial_data = <<>>
  /\ saved_count = 0
  /\ idx = 1
  /\ runs = 1
  /\ df = <<>>
  /\ raised = {}
  /\ save_log = <<>>
  /\ faults_left = 0
  /\ request = NoRequest

\* Step 0 (lines 97-112): unlink deletes the file and DatabaseManager
\* creates empty tables, or unlink raises, the except of line 106 logs
\* "Continuing anyway..." and init_database's CREATE TABLE IF NOT EXISTS
\* leaves the rows of the old file
ClearDatabase ==
  /\ pc = "clear"
  /\ \E unlink_raises \in BOOLEAN :
       IF unlink_raises /\ companies_table # {}
       THEN UNCHANGED << companies_table, financial_statements,
                         latest_upsert >>
       ELSE /\ companies_table' = {}
            /\ financial_statements' = {}
            /\ latest_upsert' = <<>>
  /\ pc' = "collect"
  /\ UNCHANGED << found_companies, company_facts, idx, financial_data,
                  saved_count, last_call, runs, first_run_statements, df,
                  raised, save_log, faults_left, request >>

NextInteractive ==
  \/ ClearDatabase
  \/ CollectCompany
  \/ NoCompanies
  \/ SaveCompany
  \/ SaveFinancial
  \/ Export

SpecInteractive == InitInteractive /\ [][NextInteractive]_vars

(***************************************************************************)
(* export_for_powerbi on its own                                           *)
(***************************************************************************)
InitExport ==
  /\ found_companies = <<>>
  /\ company_facts = <<>>
  /\ pc = "api"
  /\ companies_table \in ExportCompanyTables
  /\ financial_statements \in ExportStatementTables(companies_table)
  /\ latest_upsert =
       [ k \in { StatementKey(r) : r \in financial_statements } |->
           CHOOSE r \in financial_statements : StatementKey(r) = k ]
  /\ last_call = NoCall
  /\ first_run_statements = {}
  /\ financial_data = <<>>
  /\ saved_count = 0
  /\ idx = 1
  /\ runs = 1
  /\ df = <<>>
  /\ raised = {}
  /\ save_log = <<>>
  /\ faults_left = 0
  /\ request = NoRequest

CallExport ==
  /\ pc = "api"
  /\ DoExport
  /\ UNCHANGED << found_companies, company_facts, pc, idx, financial_data,
                  saved_count, runs, first_run_statements, raised, save_log,
                  request >>

NextExport == CallExport

SpecExport == InitExport /\ [][NextExport]_vars

(***************************************************************************)
(* _make_request: the retry loop of one HTTP request                       *)
(***************************************************************************)

\* the largest max_retries a call is made with; the default is 3
MaxRetries == 3

\* REQUEST_DELAY = 0.1 s, in tenths of a second
RequestDelayTenths == 1

\* what one pass of the try block meets: a parsed response; an exception
\* of session.get (Timeout, ConnectionError) or of raise_for_status
\* (HTTPError); a body that is not JSON, for which response.json() raises
\* requests' JSONDecodeError, a RequestException, or with requests before
\* 2.27 a plain ValueError
RequestErrors == { "Timeout", "ConnectionError", "HTTPError",
                   "JSONDecodeError" }

AttemptOutcomes == { "ok", "ValueError" } \cup RequestErrors

\* the outcomes met after the rate-limiting sleep of line 41
AfterRateLimit == { "ok", "ValueError", "JSONDecodeError" }

\* the parsed body of the response of an attempt
Payload(attempt) == [ payload_of_attempt |-> attempt ]

RateLimitSleep == [ kind |-> "rate_limit", tenths |-> RequestDelayTenths ]

\* time.sleep(2 ** attempt)
BackoffSleep(attempt) == [ kind |-> "backoff", tenths |-> 10 * (2 ^ attempt) ]

\* the last pass also sleeping before it gives up
MakeRequestAttempt_AlwaysBackoff ==
  /\ request.state = "running"
  /\ request.attempt < request.max_retries
  /\ \E outcome \in AttemptOutcomes :
       LET made == Append(request.outcomes, outcome)
           slept == IF outcome \in AfterRateLimit
                    THEN Append(request.sleeps, RateLimitSleep)
                    ELSE request.sleeps
       IN request' =
            IF outcome = "ok"
            THEN [ request EXCEPT !.state = "returned", !.outcomes = made,
                                  !.sleeps = slept,
                                  !.result = Payload(request.attempt) ]
            ELSE IF outcome \in RequestErrors
            THEN IF request.attempt < request.max_retries - 1
                 THEN [ request EXCEPT
                          !.outcomes = made,
                          !.sleeps = Append(slept,
                                            BackoffSleep(request.attempt)),
                          !.attempt = @ + 1 ]
                 ELSE [ request EXCEPT
                          !.state = "returned", !.outcomes = made,
                          !.sleeps = Append(slept,
                                            BackoffSleep(request.attempt)),
                          !.result = None ]
            ELSE [ request EXCEPT !.state = "raised", !.outcomes = made,
                                  !.sleeps = slept ]
  /\ UNCHANGED << found_companies, company_facts, pc, idx, financial_data,
                  saved_count, companies_table, financial_statements,
                  last_call, latest_upsert, runs, first_run_statements, df,
                  raised, save_log, faults_left >>

\* one pass of `for attempt in range(max_retries)` (lines 34-51)
MakeRequestAttempt ==
  /\ request.state = "running"
  /\ request.attempt < request.max_retries
  /\ \E outcome \in AttemptOutcomes :
       LET made == Append(request.outcomes, outcome)
           slept == IF outcome \in AfterRateLimit
                    THEN Append(request.sleeps, RateLimitSleep)
                    ELSE request.sleeps
       IN request' =
            IF outcome = "ok"
            THEN [ request EXCEPT !.state = "returned", !.outcomes = made,
                                  !.sleeps = slept,
                                  !.result = Payload(request.attempt) ]
            ELSE IF outcome \in RequestErrors
            THEN IF request.attempt < request.max_retries - 1
                 THEN [ request EXCEPT
                          !.outcomes = made,
                          !.sleeps = Append(slept,
                                            BackoffSleep(request.attempt)),
                          !.attempt = @ + 1 ]
                 ELSE [ request EXCEPT
                          !.state = "returned", !.outcomes = made,
                          !.sleeps = slept, !.result = None ]
            ELSE [ request EXCEPT !.state = "raised", !.outcomes = made,
                                  !.sleeps = slept ]
  /\ UNCHANGED << found_companies, company_facts, pc, idx, financial_data,
                  saved_count, companies_table, financial_statements,
                  last_call, latest_upsert, runs, first_run_statements, df,
                  raised, save_log, faults_left >>

\* the loop ran out of passes (line 53): only when max_retries is 0
LoopExhausted ==
  /\ request.state = "running"
  /\ request.attempt >= request.max_retries
  /\ request' = [ request EXCEPT !.state = "returned", !.result = None ]
  /\ UNCHANGED << found_companies, company_facts, pc, idx, financial_data,
                  saved_count, companies_table, financial_statements,
                  last_call, latest_upsert, runs, first_run_statements, df,
                  raised, save_log, faults_left >>

InitRequest ==
  /\ found_companies = <<>>
  /\ company_facts = <<>>
  /\ pc = "api"
  /\ EmptyStore
  /\ faults_left = 0
  /\ \E max_retries \in 0 .. MaxRetries :
       request = [ NoRequest EXCEPT !.state = "running",
                                    !.max_retries = max_retries ]

NextRequest == MakeRequestAttempt \/ LoopExhausted

SpecRequest == InitRequest /\ [][NextRequest]_vars

\* the loop is sequential code and every pass ends: session.get has a
\* timeout and the sleeps are finite
SpecRequestFair == SpecRequest /\ WF_vars(NextRequest)

(***************************************************************************)
(* Properties                                                              *)
(***************************************************************************)
Collected == pc # "collect"

\* the us_gaap dict of the company a record was extracted for
UsGaapFor(rec) == UsGaapOf(company_facts[rec.cik])

RecordKey(rec) == << rec.period_end_date, rec.form_type, rec.fiscal_year >>

\* the records of a list upserted one after the other into a table
RECURSIVE UpsertAll(_, _, _)
UpsertAll(statements, records, k) ==
  IF k > Len(records) THEN statements
  ELSE UpsertAll(insert_financial_statement(companies_table, statements,
                                            records[k]).statements,
                 records, k + 1)

\* C1: the statements table never holds two rows with the same
\* (cik, period_end_date, form_type), and its rows are exactly the rows of
\* the latest successful upsert of each key
C1_OneRowPerKeyLatestWins ==
  /\ \A r1, r2 \in financial_statements :
       StatementKey(r1) = StatementKey(r2) => r1 = r2
  /\ financial_statements = { latest_upsert[k] : k \in DOMAIN latest_upsert }

\* an upsert has just replaced a row of its key that held other values
C1_Witness ==
  /\ last_call.op = "insert_financial_statement"
  /\ last_call.ok
  /\ last_call.replaced
  /\ Cardinality(financial_statements) = MaxStatements

\* C2: when the pipeline has run a second time on the same fact bags, the
\* statements table is what it was after the first run
C2_Idempotent ==
  (pc = "done" /\ runs >= 2) => financial_statements = first_run_statements

\* C3: the table a first run leaves is the table that upserting the
\* extracted records in any other order leaves
C3_Commutative ==
  (pc = "done" /\ runs = 1) =>
    \A perm \in Orderings(DOMAIN financial_data) :
      UpsertAll({}, [ i \in DOMAIN financial_data |->
                        financial_data[perm[i]] ], 1)
        = financial_statements

\* C4: when every extracted record was upserted successfully, each of them
\* has a row with its cik, period end, form and fiscal year
C4_RowPerPeriodKey ==
  (pc = "done" /\ saved_count = Len(financial_data)) =>
    \A i \in DOMAIN financial_data :
      \E row \in financial_statements :
        /\ row.cik = financial_data[i].cik
        /\ row.period_end_date = financial_data[i].period_end_date
        /\ row.form_type = financial_data[i].form_type
        /\ row.fiscal_year = financial_data[i].fiscal_year

\* the non-null values a tag reports for a period under the tried units
AliasValues(us_gaap, sec_name, key) ==
  IF sec_name \notin DOMAIN us_gaap THEN {}
  ELSE LET units == UnitsOf(us_gaap, sec_name)
       IN UNION { { units[u][i].val :
                      i \in { j \in DOMAIN units[u] :
                                /\ PeriodKeyOf(units[u][j]) = key
                                /\ units[u][j].val # None } } :
                  u \in DOMAIN units \cap Range(UnitTrialOrder) }

\* C5: when two aliases of a metric both report a value for a record's
\* period and the values differ, the record's slot holds a value of the
\* alias that comes first in the metric's alias list
C5_AliasPriority ==
  Collected =>
    \A i \in DOMAIN financial_data :
      \A m \in Range(MetricNames) :
        \A a, b \in DOMAIN metric_mappings[m] :
          LET rec == financial_data[i]
              va == AliasValues(UsGaapFor(rec), metric_mappings[m][a],
                                RecordKey(rec))
              vb == AliasValues(UsGaapFor(rec), metric_mappings[m][b],
                                RecordKey(rec))
          IN (a < b /\ va # {} /\ vb # {} /\ va # vb) => rec[m] \in va

\* the unit kinds the design accepts for a metric: per-share metrics take
\* both kinds, every other metric absolute currency only
AcceptedUnitKinds(m) ==
  IF m \in { "eps_basic", "eps_diluted" } THEN { "USD", "USD/shares" }
  ELSE { "USD" }

\* C6: a non-null metric slot is the value of an entry of one of the
\* metric's aliases, for the record's period, under a unit kind the metric
\* accepts
C6_UnitKindFilter ==
  Collected =>
    \A i \in DOMAIN financial_data :
      \A m \in Range(MetricNames) :
        LET rec == financial_data[i]
            us_gaap == UsGaapFor(rec)
        IN rec[m] # None =>
             \E k \in DOMAIN metric_mappings[m] :
               /\ metric_mappings[m][k] \in DOMAIN us_gaap
               /\ \E u \in DOMAIN UnitsOf(us_gaap, metric_mappings[m][k])
                            \cap AcceptedUnitKinds(m) :
                    \E e \in Range(UnitsOf(us_gaap,
                                           metric_mappings[m][k])[u]) :
                      PeriodKeyOf(e) = RecordKey(rec) /\ e.val = rec[m]

\* every metric of the period resolves to null
AllMetricsNull(us_gaap, key) ==
  \A m \in Range(MetricNames) : ResolveMetric(us_gaap, m, key).value = None

\* the extracted records of a period of the one company
RecordsOfKey(key) ==
  { i \in DOMAIN financial_data : RecordKey(financial_data[i]) = key }

\* C7: no extracted record has all its metric slots null, and a period all
\* of whose metrics resolve to null has no record
C7_NoAllNullRecord ==
  Collected =>
    /\ \A i \in DOMAIN financial_data :
         \E m \in Range(MetricNames) : financial_data[i][m] # None
    /\ \A key \in AllPeriods(UsGaapOf(company_facts[Apple])) :
         AllMetricsNull(UsGaapOf(company_facts[Apple]), key)
           => RecordsOfKey(key) = {}

\* a valid period whose metrics all resolve to null was dropped while
\* another period of the same bag gave a record
C7_Witness ==
  /\ Collected
  /\ financial_data # <<>>
  /\ \E key \in AllPeriods(UsGaapOf(company_facts[Apple])) :
       /\ ValidPeriod(key)
       /\ AllMetricsNull(UsGaapOf(company_facts[Apple]), key)
       /\ RecordsOfKey(key) = {}

\* C8: a valid period with a metric that resolves to a non-null value has
\* exactly one extracted record
C8_OnlyAllNullDiscarded ==
  Collected =>
    \A key \in AllPeriods(UsGaapOf(company_facts[Apple])) :
      (ValidPeriod(key)
         /\ ~AllMetricsNull(UsGaapOf(company_facts[Apple]), key))
        => Cardinality(RecordsOfKey(key)) = 1

\* C9: an insert_financial_statement naming a cik with no companies row
\* fails
C9_MissingEntityRejected ==
  (last_call.op = "insert_financial_statement" /\ ~last_call.entity_exists)
    => ~last_call.ok

\* C10: every statements row names the cik of a companies row
C10_ReferentialIntegrity ==
  \A r \in financial_statements :
    \E c \in companies_table : c.cik = r.cik

\* a companies row holds the ticker of the call under another cik
TickerHeldByOther(company_data) ==
  \E r \in companies_table :
    r.ticker = company_data.ticker /\ r.cik # company_data.cik

\* C11: an insert_company whose ticker a row of another cik already holds
\* returns False and leaves that row in the table as it was
C11_TickerConflictRejected ==
  [][ \A company_data \in CompanyInputs :
        (DoInsertCompany(company_data) /\ TickerHeldByOther(company_data))
          => /\ ~last_call'.ok
             /\ \A r \in companies_table :
                  r.ticker = company_data.ticker => r \in companies_table'
    ]_vars

\* no two companies rows share a cik and no two share a ticker
UniqueCompanies(tbl) ==
  \A r1, r2 \in tbl : (r1.cik = r2.cik \/ r1.ticker = r2.ticker) => r1 = r2

\* C12: the companies table never holds two rows with one cik or one
\* ticker, and a successful insert_company for a cik that has a row leaves
\* the call's row in the table and the number of rows as it was
C12_EntityUniqueness ==
  [][ /\ UniqueCompanies(companies_table')
      /\ \A company_data \in CompanyInputs :
           (/\ DoInsertCompany(company_data)
            /\ last_call'.ok
            /\ \E r \in companies_table : r.cik = company_data.cik)
             => /\ CompanyRow(company_data) \in companies_table'
                /\ Cardinality(companies_table')
                     = Cardinality(companies_table)
    ]_vars

Exported == last_call.op = "export_for_powerbi"

\* the statement and the company an exported row was built from
SourceOf(row) ==
  CHOOSE p \in financial_statements \X companies_table :
    /\ p[1].cik = p[2].cik
    /\ p[2].ticker = row.ticker
    /\ p[1].period_end_date = row.period_end_date
    /\ p[1].form_type = row.form_type

\* the four derived ratios of an exported row: numerator, denominator,
\* factor, and the exported value in hundredths
RatiosOf(row) ==
  LET fs == SourceOf(row)[1]
  IN { << fs.net_income, fs.revenue, 100, row.net_margin_percent >>,
       << fs.operating_income, fs.revenue, 100,
          row.operating_margin_percent >>,
       << fs.current_assets, fs.current_liabilities, 1, row.current_ratio >>,
       << fs.total_liabilities, fs.total_assets, 100,
          row.debt_to_assets_percent >> }

AbsDiff(a, b) == IF a >= b THEN a - b ELSE b - a

\* C13 as stated: every ratio of an exported row is null when its
\* denominator is null, zero or negative, and is exactly
\* numerator * factor / denominator when the denominator is positive and
\* the numerator is not null
C13_RatioGuardExact ==
  Exported =>
    \A i \in DOMAIN df :
      \A q \in RatiosOf(df[i]) :
        /\ (q[2] = None \/ q[2][1] <= 0) => q[4] = None
        /\ (q[2] # None /\ q[2][1] > 0 /\ q[1] # None)
             => /\ q[4] # None
                /\ q[4][1] * q[2][1] = q[1][1] * q[3] * 100

\* C13: every ratio of an exported row is null when its denominator is
\* null, zero or negative, and is numerator * factor / denominator rounded
\* to two decimals when the denominator is positive and the numerator is
\* not null
C13_RatioGuardRounded ==
  Exported =>
    \A i \in DOMAIN df :
      \A q \in RatiosOf(df[i]) :
        /\ (q[2] = None \/ q[2][1] <= 0) => q[4] = None
        /\ (q[2] # None /\ q[2][1] > 0 /\ q[1] # None)
             => /\ q[4] # None
                /\ 2 * AbsDiff(q[4][1] * q[2][1], q[1][1] * q[3] * 100)
                     <= q[2][1]

\* an exported row whose total_assets is zero, with a null debt ratio, and
\* whose current ratio 1/3 is exported as 0.33
C13_Witness ==
  /\ Exported
  /\ \E i \in DOMAIN df :
       LET fs == SourceOf(df[i])[1]
       IN /\ fs.total_assets = Some(0)
          /\ fs.total_liabilities = Some(1)
          /\ df[i].debt_to_assets_percent = None
          /\ fs.current_assets = Some(1)
          /\ fs.current_liabilities = Some(3)
          /\ df[i].current_ratio = Some(33)

\* what the scan of a record's metric ended with: the value and the filed
\* date of the observation it stopped at
Resolved(rec, k) ==
  ResolveMetric(UsGaapFor(rec), MetricNames[k], RecordKey(rec))

\* the smallest index of a nonempty set of metric indexes
FirstIndex(S) == CHOOSE k \in S : \A j \in S : k <= j

\* C14: the filing_date of an extracted record is the filed value of the
\* observation that supplied the first metric, in metric order, whose value
\* is not null
C14_FilingDateOfFirstResolved ==
  Collected =>
    \A i \in DOMAIN financial_data :
      LET rec == financial_data[i]
          resolved == { k \in DOMAIN MetricNames :
                          Resolved(rec, k).value # None }
      IN resolved # {} =>
           rec.filing_date = Resolved(rec, FirstIndex(resolved)).filing_date

\* the filed dates of the model, earliest first
FiledOrder == << FiledFeb, FiledMar >>

FiledRank(d) == CHOOSE i \in DOMAIN FiledOrder : FiledOrder[i] = d

\* the non-null filed dates of the observations that supplied a record's
\* non-null metric values
SupplierFiledDates(rec) ==
  { Resolved(rec, k).filing_date :
      k \in { j \in DOMAIN MetricNames : Resolved(rec, j).value # None } }
    \ { None }

\* C15 as stated: the filing_date of an extracted record is the earliest
\* non-null filed date among the observations that supplied its metric
\* values
C15_FilingDateEarliest ==
  Collected =>
    \A i \in DOMAIN financial_data :
      LET dates == SupplierFiledDates(financial_data[i])
      IN dates # {} =>
           /\ financial_data[i].filing_date \in dates
           /\ \A d \in dates :
                FiledRank(financial_data[i].filing_date) <= FiledRank(d)

\* C15: the filing_date of an extracted record is the filed date the first
\* metric, in metric order, whose scan stopped at an observation with a
\* non-empty filed date got from that observation, and null when no metric
\* has one
C15_FilingDateFirstFiled ==
  Collected =>
    \A i \in DOMAIN financial_data :
      LET rec == financial_data[i]
          dated == { k \in DOMAIN MetricNames :
                       TruthyStr(Resolved(rec, k).filing_date) }
      IN rec.filing_date =
           IF dated = {} THEN None
           ELSE Resolved(rec, FirstIndex(dated)).filing_date

\* a record whose revenue came from an observation filed in March and whose
\* total_assets came from one filed in February: its filing_date is March
C15_Witness ==
  /\ Collected
  /\ \E i \in DOMAIN financial_data :
       /\ financial_data[i].revenue # None
       /\ Resolved(financial_data[i], 1).filing_date = FiledMar
       /\ financial_data[i].total_assets # None
       /\ Resolved(financial_data[i], 3).filing_date = FiledFeb
       /\ financial_data[i].filing_date = FiledMar

\* the exported rows built from a statement and a company
RowsOf(fs, c) ==
  { i \in DOMAIN df :
      /\ df[i].ticker = c.ticker
      /\ df[i].period_end_date = fs.period_end_date
      /\ df[i].form_type = fs.form_type
      /\ df[i].fiscal_year = fs.fiscal_year }

\* the statements joined to their company
StoredWithCompany ==
  { p \in financial_statements \X companies_table : p[1].cik = p[2].cik }

\* C16 as stated: the export has exactly one row for every statement whose
\* cik has a companies row, a statement with a null revenue included, and
\* no other row
C16_ExportCoversEveryRecord ==
  Exported =>
    /\ \A p \in StoredWithCompany : Cardinality(RowsOf(p[1], p[2])) = 1
    /\ \A i \in DOMAIN df :
         \E p \in StoredWithCompany : i \in RowsOf(p[1], p[2])

\* C16: the export has exactly one row for every statement whose cik has a
\* companies row and whose revenue is not null, and no other row
C16_ExportCoversRevenueRecords ==
  Exported =>
    /\ \A p \in StoredWithCompany :
         Cardinality(RowsOf(p[1], p[2]))
           = IF p[1].revenue # None THEN 1 ELSE 0
    /\ \A i \in DOMAIN df :
         \E p \in StoredWithCompany : i \in RowsOf(p[1], p[2])

\* an export of one row from a table of three statements: one with a
\* company and a revenue, one with a company and a null revenue, one with a
\* revenue and no company
C16_Witness ==
  /\ Exported
  /\ Len(df) = 1
  /\ \E p \in StoredWithCompany : p[1].revenue = None
  /\ \E fs \in financial_statements :
       /\ fs.revenue # None
       /\ ~(\E c \in companies_table : c.cik = fs.cik)

\* C17 as stated: the exported rows are in ascending order of cik, then
\* descending order of fiscal year, then ascending order of form type
C17_OrderedByEntityId ==
  Exported =>
    \A i, j \in DOMAIN df :
      i < j =>
        LET ci == TextRank(SourceOf(df[i])[2].cik)
            cj == TextRank(SourceOf(df[j])[2].cik)
        IN \/ ci < cj
           \/ /\ ci = cj
              /\ \/ df[i].fiscal_year[1] > df[j].fiscal_year[1]
                 \/ /\ df[i].fiscal_year = df[j].fiscal_year
                    /\ TextRank(df[i].form_type) <= TextRank(df[j].form_type)

\* C17: the exported rows are in ascending order of ticker, then descending
\* order of fiscal year, then ascending order of form type
C17_OrderedByTicker ==
  Exported =>
    \A i, j \in DOMAIN df :
      i < j =>
        \/ TextRank(df[i].ticker) < TextRank(df[j].ticker)
        \/ /\ df[i].ticker = df[j].ticker
           /\ \/ df[i].fiscal_year[1] > df[j].fiscal_year[1]
              \/ /\ df[i].fiscal_year = df[j].fiscal_year
                 /\ TextRank(df[i].form_type) <= TextRank(df[j].form_type)

\* an export of three rows: GOOGL's fiscal year 2024, GOOGL's 2023, then
\* MSFT, whose cik is the smaller one
C17_Witness ==
  /\ Exported
  /\ Len(df) = 3
  /\ df[1].ticker = Some("GOOGL") /\ df[1].fiscal_year = Some(2024)
  /\ df[2].ticker = Some("GOOGL") /\ df[2].fiscal_year = Some(2023)
  /\ df[3].ticker = Some("MSFT")

\* the bag the extraction run was given
TheBag == company_facts[Apple]

\* a bag that is None or empty or has no 'facts' key
LacksFacts(bag) == "facts" \notin DOMAIN bag

\* a bag whose 'facts' is a dict without the 'us-gaap' key
LacksUsGaap(bag) ==
  /\ "facts" \in DOMAIN bag
  /\ bag["facts"] # JsonNull
  /\ "us-gaap" \notin DOMAIN bag["facts"]

\* the tags of a bag's us-gaap dict that are dicts without the 'units' key
TagsWithoutUnits(bag) ==
  IF LacksFacts(bag) \/ LacksUsGaap(bag) \/ bag["facts"] = JsonNull
     \/ bag["facts"]["us-gaap"] = JsonNull
  THEN {}
  ELSE { t \in DOMAIN bag["facts"]["us-gaap"] :
           /\ bag["facts"]["us-gaap"][t] # JsonNull
           /\ "units" \notin DOMAIN bag["facts"]["us-gaap"][t] }

\* no level of the bag is a null
NoNullLevel(bag) ==
  LacksFacts(bag) \/ LacksUsGaap(bag)
    \/ /\ bag["facts"] # JsonNull
       /\ bag["facts"]["us-gaap"] # JsonNull
       /\ \A t \in DOMAIN bag["facts"]["us-gaap"] :
            /\ bag["facts"]["us-gaap"][t] # JsonNull
            /\ Get(bag["facts"]["us-gaap"][t], "units", <<>>) # JsonNull

\* C18: the extraction of a bag that is None or empty, has no 'facts', has
\* no 'us-gaap', or whose tags all lack 'units' does not raise and returns
\* no record; a bag with some tags lacking 'units' does not raise and no
\* record has a value for a metric whose tags all lack 'units'
C18_MalformedBagNeverRaises ==
  Collected =>
    /\ (LacksFacts(TheBag) \/ LacksUsGaap(TheBag)
          \/ (NoNullLevel(TheBag) /\ TagsWithoutUnits(TheBag)
                = DOMAIN UsGaapOf(TheBag)))
         => (raised = {} /\ financial_data = <<>>)
    /\ (NoNullLevel(TheBag) /\ TagsWithoutUnits(TheBag) # {})
         => /\ raised = {}
            /\ \A i \in DOMAIN financial_data :
                 \A k \in DOMAIN MetricNames :
                   Range(metric_mappings[MetricNames[k]])
                       \cap DOMAIN UsGaapOf(TheBag)
                     \subseteq TagsWithoutUnits(TheBag)
                   => financial_data[i][MetricNames[k]] = None

\* the extraction of a bag whose Revenues tag has no 'units' and whose
\* Assets tag is complete has returned one record, without revenue
C18_Witness ==
  /\ Collected
  /\ raised = {}
  /\ TagsWithoutUnits(TheBag) = { "Revenues" }
  /\ Len(financial_data) = 1
  /\ financial_data[1].revenue = None
  /\ financial_data[1].total_assets = Some(100)

\* an observation with a non-null end and fiscal year and an accepted form
ValidObservation(e) ==
  e.end # None /\ e.fy # None /\ e.form \in AcceptedForms

\* the entries of a bag's mapped tags under the tried units
ObservationsOf(us_gaap) ==
  UNION { UNION { Range(UnitsOf(us_gaap, t)[u]) :
                    u \in DOMAIN UnitsOf(us_gaap, t)
                            \cap Range(UnitTrialOrder) } :
          t \in DOMAIN us_gaap \cap MappedTags }

\* a us_gaap dict without its observations that are not valid
WithoutInvalid(us_gaap) ==
  [ t \in DOMAIN us_gaap |->
      [ units |->
          [ u \in DOMAIN UnitsOf(us_gaap, t) |->
              SelectSeq(UnitsOf(us_gaap, t)[u], ValidObservation) ] ] ]

\* C19: every extracted record has a non-null period end and fiscal year
\* and the form 10-K or 10-Q, each of its non-null metric values is the
\* value of a valid observation of its period, and the records are the
\* records of the bag without its observations of another form or with a
\* null end, form or fiscal year
C19_ValidPeriodKey ==
  (Collected /\ raised = {} /\ TagsWithoutUnits(TheBag) = {}) =>
    /\ \A i \in DOMAIN financial_data :
         LET rec == financial_data[i]
         IN /\ rec.period_end_date # None
            /\ rec.fiscal_year # None
            /\ rec.form_type \in AcceptedForms
            /\ \A k \in DOMAIN MetricNames :
                 rec[MetricNames[k]] # None =>
                   \E e \in ObservationsOf(UsGaapOf(TheBag)) :
                     /\ ValidObservation(e)
                     /\ PeriodKeyOf(e) = RecordKey(rec)
                     /\ e.val = rec[MetricNames[k]]
    /\ \E periods \in
           Orderings(AllPeriods(WithoutInvalid(UsGaapOf(TheBag)))) :
         financial_data =
           RecordsFor(WithoutInvalid(UsGaapOf(TheBag)), Apple, periods, 1)

\* a bag with a valued observation of a form that is not accepted or with
\* a null end or fiscal year, and a valid one, has given one record
C19_Witness ==
  /\ Collected
  /\ Len(financial_data) = 1
  /\ \E e \in ObservationsOf(UsGaapOf(TheBag)) :
       ~ValidObservation(e) /\ e.val # None
  /\ \E e \in ObservationsOf(UsGaapOf(TheBag)) :
       ValidObservation(e) /\ PeriodKeyOf(e) = RecordKey(financial_data[1])

\* the calls one of the two save loops has made in this run
CallsOf(loop) == SelectSeq(save_log, LAMBDA e : e.loop = loop)

\* C20: when the save loops of a run are over, insert_company was called
\* once for every company of the list, in order, and
\* insert_financial_statement once for every record, in order, whatever
\* the calls returned, and saved_count is the number of
\* insert_financial_statement calls that returned True
C20_FailuresDoNotAbort ==
  pc \in { "export", "done" } =>
    /\ Len(CallsOf("companies")) = Len(found_companies)
    /\ \A i \in DOMAIN CallsOf("companies") : CallsOf("companies")[i].item = i
    /\ Len(CallsOf("financial_data")) = Len(financial_data)
    /\ \A i \in DOMAIN CallsOf("financial_data") :
         CallsOf("financial_data")[i].item = i
    /\ saved_count =
         Cardinality({ i \in DOMAIN CallsOf("financial_data") :
                         CallsOf("financial_data")[i].ok })

\* a run is over in which an insert_company failed and a later company was
\* saved, and an insert_financial_statement failed and a later record was
\* saved
C20_Witness ==
  /\ pc = "done"
  /\ \E i, j \in DOMAIN CallsOf("companies") :
       i < j /\ ~CallsOf("companies")[i].ok /\ CallsOf("companies")[j].ok
  /\ \E i, j \in DOMAIN CallsOf("financial_data") :
       /\ i < j
       /\ ~CallsOf("financial_data")[i].ok
       /\ CallsOf("financial_data")[j].ok
  /\ saved_count = 1
  /\ Len(financial_data) = 2


(***************************************************************************)
(* C21: an I/O failure of the store during insert_company or               *)
(* insert_financial_statement aborts the current batch: no item after the  *)
(* one that met the failure is upserted by the same loop.                  *)
(***************************************************************************)
C21_IoFailureAbortsBatch ==
  \A i, j \in DOMAIN save_log :
    (i < j /\ save_log[i].loop = save_log[j].loop /\ save_log[i].io)
      => ~save_log[j].ok

(***************************************************************************)
(* C22: in every run the extraction of every company is over before any   *)
(* store call is made, the companies are upserted one after another in     *)
(* list order, and before the upsert of a record the upsert of the company *)
(* the record names was attempted.                                         *)
(***************************************************************************)
C22_PipelineOrdering ==
  /\ pc = "collect" => save_log = <<>>
  /\ save_log # <<>> =>
       \A c \in Range(found_companies) :
         ExtractRaises(company_facts[c.cik]) <=> c.cik \in raised
  /\ \A i \in DOMAIN CallsOf("companies") : CallsOf("companies")[i].item = i
  /\ \A j \in DOMAIN save_log :
       save_log[j].loop = "financial_data" =>
         \E i \in 1..(j - 1) :
           /\ save_log[i].loop = "companies"
           /\ found_companies[save_log[i].item].cik =
                financial_data[save_log[j].item].cik

\* two companies were collected and a record of the second one is upserted
\* after both companies were
C22_Witness ==
  /\ Len(found_companies) = 2
  /\ found_companies[1].cik # found_companies[2].cik
  /\ \E j \in DOMAIN save_log :
       /\ save_log[j].loop = "financial_data"
       /\ save_log[j].ok
       /\ financial_data[save_log[j].item].cik = found_companies[2].cik

(***************************************************************************)
(* C23: end to end, a fact bag that holds one Revenues USD observation of  *)
(* value r > 0 and at most one NetIncomeLoss USD observation of value n    *)
(* for the same period and filing gives one stored record and one exported *)
(* margin.                                                                 *)
(***************************************************************************)

\* the r and n the fact bag of a company was built from
EndToEndInput(cik) ==
  CHOOSE p \in EndToEndRevenues \X EndToEndNetIncomes :
    company_facts[cik] = BagOf(EndToEndObs(cik, p[1], p[2]), cik)

\* the stored records of a company
StoredFor(cik) == { s \in financial_statements : s.cik = cik }

\* the exported rows of a company
ExportedFor(cik) ==
  { i \in DOMAIN df : SourceOf(df[i])[1].cik = cik }

\* the stored part of C23: exactly one record, with revenue r, net_income n
\* (null without a NetIncomeLoss observation) and the filed date
EndToEndStored(cik) ==
  LET p == EndToEndInput(cik)
  IN /\ Cardinality(StoredFor(cik)) = 1
     /\ \A s \in StoredFor(cik) :
          /\ s.revenue = Some(p[1])
          /\ s.net_income = p[2]
          /\ s.filing_date = FiledFeb
          /\ s.period_end_date = YearEnd
          /\ s.form_type = Some("10-K")
     /\ (\E c \in companies_table : c.cik = cik) => ExportedFor(cik) # {}

\* C23 as stated: the exported net_margin_percent is exactly n * 100 / r
C23_EndToEndExactMargin ==
  (pc = "done" /\ Exported) =>
    \A c \in Range(found_companies) :
      /\ EndToEndStored(c.cik)
      /\ \A i \in ExportedFor(c.cik) :
           LET p == EndToEndInput(c.cik)
               m == df[i].net_margin_percent
           IN IF p[2] = None THEN m = None
              ELSE m # None /\ m[1] * p[1] = p[2][1] * 100 * 100

\* C23: the exported net_margin_percent is n * 100 / r rounded to two
\* decimals (10.0 for r = 1000 and n = 100), null when net_income is null
C23_EndToEndRoundedMargin ==
  (pc = "done" /\ Exported) =>
    \A c \in Range(found_companies) :
      /\ EndToEndStored(c.cik)
      /\ \A i \in ExportedFor(c.cik) :
           LET p == EndToEndInput(c.cik)
               m == df[i].net_margin_percent
           IN IF p[2] = None THEN m = None
              ELSE /\ m # None
                   /\ 2 * AbsDiff(m[1] * p[1], p[2][1] * 100 * 100) <= p[1]
                   /\ (p[1] = 1000 /\ p[2] = Some(100)) => m = Some(1000)

\* a run exported 10.0 for r = 1000 and n = 100, 66.67 for r = 3 and n = 2
C23_Witness ==
  /\ pc = "done"
  /\ Exported
  /\ Len(found_companies) = 2
  /\ \E i, j \in DOMAIN df :
       /\ df[i].net_margin_percent = Some(1000)
       /\ df[j].net_margin_percent = Some(6667)

(***************************************************************************)
(* C24: within one alias a USD observation for the period is resolved      *)
(* before a USD/shares one, and an observation under either unit of an     *)
(* earlier alias is resolved before any observation of a later alias.      *)
(***************************************************************************)

\* the non-null values a tag reports for a period under one unit
UnitValues(us_gaap, sec_name, unit_type, key) ==
  IF sec_name \notin DOMAIN us_gaap THEN {}
  ELSE LET units == UnitsOf(us_gaap, sec_name)
       IN IF unit_type \notin DOMAIN units THEN {}
          ELSE { units[unit_type][i].val :
                   i \in { j \in DOMAIN units[unit_type] :
                             /\ PeriodKeyOf(units[unit_type][j]) = key
                             /\ units[unit_type][j].val # None } }

\* the slot holds a USD value of the first alias that reports the period
\* when that alias reports it under both units
UsdBeforePerShare(rec, m) ==
  \A a \in DOMAIN metric_mappings[m] :
    LET sec_name == metric_mappings[m][a]
        usd == UnitValues(UsGaapFor(rec), sec_name, "USD", RecordKey(rec))
        per == UnitValues(UsGaapFor(rec), sec_name, "USD/shares",
                          RecordKey(rec))
        earlier == UNION { AliasValues(UsGaapFor(rec), metric_mappings[m][b],
                                       RecordKey(rec)) : b \in 1 .. (a - 1) }
    IN (earlier = {} /\ usd # {} /\ per # {}) => rec[m] \in usd

\* the slot holds a value of the earlier of two aliases that both report
\* the period, under whichever unit
AliasBeforeUnit(rec, m) ==
  \A a, b \in DOMAIN metric_mappings[m] :
    LET va == AliasValues(UsGaapFor(rec), metric_mappings[m][a],
                          RecordKey(rec))
        vb == AliasValues(UsGaapFor(rec), metric_mappings[m][b],
                          RecordKey(rec))
        earlier == UNION { AliasValues(UsGaapFor(rec), metric_mappings[m][c],
                                       RecordKey(rec)) : c \in 1 .. (a - 1) }
    IN (a < b /\ earlier = {} /\ va # {} /\ vb # {}) => rec[m] \in va

C24_UnitTrialOrder ==
  Collected =>
    \A i \in DOMAIN financial_data :
      \A m \in Range(MetricNames) :
        /\ UsdBeforePerShare(financial_data[i], m)
        /\ AliasBeforeUnit(financial_data[i], m)

(***************************************************************************)
(* C25: after a run_pipeline of the interactive pipeline that returns      *)
(* success, the store holds only companies and records collected in that   *)
(* run, whatever it held before the run.                                   *)
(***************************************************************************)
C25_ClearThenRepopulate ==
  (pc = "done" /\ Exported /\ found_companies # <<>>) =>
    /\ \A c \in companies_table :
         \E i \in DOMAIN found_companies : found_companies[i].cik = c.cik
    /\ \A s \in financial_statements :
         \E i \in DOMAIN financial_data :
           /\ financial_data[i].cik = s.cik
           /\ financial_data[i].period_end_date = s.period_end_date
           /\ financial_data[i].form_type = s.form_type

(***************************************************************************)
(* C26: when the fact bag of one company is absent or its processing       *)
(* raises, collect_company_data contributes no record for that company,    *)
(* still processes every later company and returns the records of the     *)
(* other companies with the full list of found companies.                  *)
(***************************************************************************)

\* the company's fact bag is absent or cannot be processed
ExtractionFails(company) ==
  \/ company_facts[company.cik] = None
  \/ ExtractRaises(company_facts[company.cik])

\* the records of the companies from position k on whose extraction works
RECURSIVE RecordsOfOthers(_)
RecordsOfOthers(k) ==
  IF k > Len(found_companies) THEN <<>>
  ELSE LET company == found_companies[k]
           facts == company_facts[company.cik]
           mine == IF ExtractionFails(company) THEN <<>>
                   ELSE extract_financial_metrics(facts, company.cik,
                          CHOOSE p \in Orderings(AllPeriods(UsGaapOf(facts))) :
                            TRUE)
       IN mine \o RecordsOfOthers(k + 1)

C26_ExtractionFailureNotFatal ==
  (Collected /\ found_companies # <<>>) =>
    /\ \A i \in DOMAIN found_companies :
         ExtractionFails(found_companies[i]) =>
           \A j \in DOMAIN financial_data :
             financial_data[j].cik # found_companies[i].cik
    /\ financial_data = RecordsOfOthers(1)
    /\ \A i \in DOMAIN found_companies :
         ExtractRaises(company_facts[found_companies[i].cik])
           <=> found_companies[i].cik \in raised
    /\ pc \in { "export", "done" } =>
         Len(CallsOf("companies")) = Len(found_companies)

\* the processing of the first of two companies raised, the second one's
\* record was collected and saved and both companies were upserted
C26_Witness ==
  /\ pc = "done"
  /\ Len(found_companies) = 2
  /\ ExtractRaises(company_facts[found_companies[1].cik])
  /\ Len(financial_data) = 1
  /\ financial_data[1].cik = found_companies[2].cik
  /\ saved_count = 1
  /\ Cardinality(companies_table) = 2

(***************************************************************************)
(* C27: _make_request makes at most max_retries attempts, stops at the     *)
(* first successful one and returns its payload, returns None exactly when *)
(* all max_retries attempts failed with a request error, sleeps            *)
(* 2^attempt seconds after each failed attempt but the last one, and       *)
(* always terminates.                                                      *)
(***************************************************************************)
Backoffs == SelectSeq(request.sleeps, LAMBDA s : s.kind = "backoff")

\* the attempts, numbered from 1, that failed with a request error
FailedAttempts ==
  { i \in DOMAIN request.outcomes : request.outcomes[i] \in RequestErrors }

RetryLoopSafe ==
  /\ Len(request.outcomes) <= request.max_retries
  /\ \A i \in DOMAIN request.outcomes :
       request.outcomes[i] = "ok" =>
         /\ i = Len(request.outcomes)
         /\ request.state = "returned"
         /\ request.result = Payload(i - 1)
  /\ request.state = "returned" =>
       (request.result = None <=>
          /\ Len(request.outcomes) = request.max_retries
          /\ FailedAttempts = DOMAIN request.outcomes)
  /\ Len(Backoffs) =
       Cardinality({ i \in FailedAttempts : i < request.max_retries })
  /\ \A i \in DOMAIN Backoffs : Backoffs[i].tenths = 10 * (2 ^ (i - 1))

Terminated == request.state \in { "returned", "raised" }

C27_RetryLoop == []RetryLoopSafe /\ <>Terminated

\* two request errors, then a successful third attempt: its payload is
\* returned after sleeps of one and two seconds
C27_Witness ==
  /\ request.state = "returned"
  /\ request.max_retries = 3
  /\ request.outcomes = << "Timeout", "HTTPError", "ok" >>
  /\ request.result = Payload(2)
  /\ Backoffs = << BackoffSleep(0), BackoffSleep(1) >>

(***************************************************************************)
(* C28: an extracted record whose filing_date is null is rejected:         *)
(* insert_financial_statement returns failure for it and the store holds   *)
(* exactly what it held before the call.                                   *)
(***************************************************************************)
C28_NullFilingDateRejected ==
  [][ ( /\ pc = "save_financial"
        /\ idx \in DOMAIN financial_data
        /\ financial_data[idx].filing_date = None )
      => /\ last_call'.op = "insert_financial_statement"
         /\ ~last_call'.ok
         /\ financial_statements' = financial_statements
         /\ companies_table' = companies_table
         /\ saved_count' = saved_count ]_vars

\* a record without filing_date was refused while the table held the row
\* of an earlier record
C28_Witness ==
  /\ financial_statements # {}
  /\ \E j \in DOMAIN save_log :
       /\ j = Len(save_log)
       /\ save_log[j].loop = "financial_data"
       /\ ~save_log[j].ok
       /\ financial_data[save_log[j].item].filing_date = None
       /\ \A f \in Range(MetricNames) :
            financial_data[save_log[j].item][f] # None
              => financial_data[save_log[j].item][f] = Some(1000)

(***************************************************************************)
(* C29: after the company loop of a run the store holds one companies row  *)
(* for every found company whose insert_company call returned success,     *)
(* also when two of the found companies have the same CIK: the row of      *)
(* that CIK holds the fields of the last of them that was saved.           *)
(***************************************************************************)

\* the positions of the found companies of one CIK whose insert succeeded
SavedWithCik(cik) ==
  { CallsOf("companies")[i].item :
      i \in { j \in DOMAIN CallsOf("companies") :
                /\ CallsOf("companies")[j].ok
                /\ found_companies[CallsOf("companies")[j].item].cik = cik } }

FirstVal(us_gaap, sec_name, unit_type, key) ==
  IF sec_name \notin DOMAIN us_gaap THEN None
  ELSE LET units == UnitsOf(us_gaap, sec_name)
       IN IF unit_type \notin DOMAIN units THEN None
          ELSE LET entries == units[unit_type]
                   hits == { i \in DOMAIN entries :
                               PeriodKeyOf(entries[i]) = key }
               IN IF hits = {} THEN None
                  ELSE entries[CHOOSE i \in hits :
                                 \A j \in hits : i <= j].val

\* the (alias, unit) positions of a metric whose first matching entry has
\* a non-null val
Supplying(rec, m) ==
  { p \in (DOMAIN metric_mappings[m]) \X (DOMAIN UnitTrialOrder) :
      FirstVal(UsGaapFor(rec), metric_mappings[m][p[1]],
               UnitTrialOrder[p[2]], RecordKey(rec)) # None }

\* alias first, then unit
TriedBefore(p, q) == p[1] < q[1] \/ (p[1] = q[1] /\ p[2] <= q[2])

C30_FirstMatchPerList ==
  Collected =>
    \A i \in DOMAIN financial_data :
      \A m \in Range(MetricNames) :
        LET rec == financial_data[i]
            s == Supplying(rec, m)
        IN IF s = {} THEN rec[m] = None
           ELSE LET p == CHOOSE q \in s : \A r \in s : TriedBefore(q, r)
                IN rec[m] = FirstVal(UsGaapFor(rec), metric_mappings[m][p[1]],
                                     UnitTrialOrder[p[2]], RecordKey(rec))

\* the USD list of Revenues holds a null and then 100 for the period and
\* another list holds 250: revenue is 250
C30_Witness ==
  /\ Collected
  /\ \E i \in DOMAIN financial_data :
       LET rec == financial_data[i]
       IN /\ rec.revenue = Some(250)
          /\ FirstVal(UsGaapFor(rec), "Revenues", "USD", RecordKey(rec))
               = None
          /\ Some(100) \in UnitValues(UsGaapFor(rec), "Revenues", "USD",
                                      RecordKey(rec))

============================================================================
